---- MODULE Spec2Model ----
(***************************************************************************)
(* Model of matrix/src/stack.rs: VerticalPair, HorizontalPair and the row  *)
(* adaptor EitherRow.  A matrix is a tree: a leaf (an external Matrix      *)
(* implementation, described by its shape and its contents) or a composite *)
(* of two trees.  usize arithmetic keeps its width: the machine word is    *)
(* scaled to UsizeModulus values, and an overflowing + or - panics in a    *)
(* build with overflow checks and wraps in a build without them.           *)
(***************************************************************************)
EXTENDS Integers, Sequences, FiniteSets

VARIABLES overflowChecks, mat, status, last, call, iter

vars == <<overflowChecks, mat, status, last, call, iter>>

(* ------------------------------ bounds -------------------------------- *)

\* Leaves have heights and widths in 0..MaxDim.
MaxDim == 2

\* next() is called at most MaxExtraNext times after it first returned None.
MaxExtraNext == 1

(* ------------------------ usize and sentinels ------------------------- *)

\* usize holds 0..UsizeModulus-1 (the word width scaled down to 6 bits).
UsizeModulus == 64

UsizeMax == UsizeModulus - 1

\* The outcome of a call that panicked (assert_eq!, checked arithmetic).
Panic == -1

\* What a leaf answers to an index outside its shape (left to the leaf).
OutOfRange == -2

\* Option::None, the answer of an exhausted iterator.
None == -3

\* a + b on usize.
UsizeAdd(a, b) ==
    IF a = Panic \/ b = Panic THEN Panic
    ELSE IF a + b <= UsizeMax THEN a + b
    ELSE IF overflowChecks THEN Panic
    ELSE (a + b) % UsizeModulus

\* a - b on usize.
UsizeSub(a, b) ==
    IF a = Panic \/ b = Panic THEN Panic
    ELSE IF a >= b THEN a - b
    ELSE IF overflowChecks THEN Panic
    ELSE (a - b + UsizeModulus) % UsizeModulus

(* ------------------------------ leaves -------------------------------- *)

\* First elements of the leaves: element (r, c) of a leaf is base + r*w + c.
Bases == {1, 5}

Leaf(h, w, base) == [kind |-> "leaf", h |-> h, w |-> w, base |-> base]

\* The leaves the constructors are given.  An empty leaf has no element, so
\* one base is enough for it.
Leaves ==
    {l \in {Leaf(h, w, b) : h \in 0..MaxDim, w \in 0..MaxDim, b \in Bases} :
        (l.h > 0 /\ l.w > 0) \/ l.base = 1}

LeafGet(m, r, c) ==
    IF r < m.h /\ c < m.w THEN m.base + r * m.w + c
    ELSE OutOfRange

\* The contents of row r of a leaf.
LeafRowItems(m, r) == [i \in 1..m.w |-> m.base + r * m.w + (i - 1)]

\* row(r) of a leaf: an iterator over the row's elements.
LeafRow(m, r) ==
    IF r < m.h THEN [kind |-> "leafiter", items |-> LeafRowItems(m, r)]
    ELSE [kind |-> "outofrange"]

\* row_slice(r) of a leaf: the row as a contiguous slice.
LeafRowSlice(m, r) ==
    IF r < m.h THEN [kind |-> "slice", items |-> LeafRowItems(m, r)]
    ELSE [kind |-> "outofrange"]

(* ------------------------ the Matrix trait ---------------------------- *)

\* Calls through the Matrix trait (and Iterator, Deref) reach the leaf's or
\* the composite's own implementation; the dispatchers are defined after
\* the implementations.
RECURSIVE Matrix_width(_)
RECURSIVE Matrix_height(_)
RECURSIVE Matrix_get(_, _, _)
RECURSIVE Matrix_row(_, _)
RECURSIVE Matrix_row_slice(_, _)
RECURSIVE Iterator_next(_)
RECURSIVE Deref_deref(_)

NoMatrix == [kind |-> "none"]

\* A call that did not return: it panicked, or a leaf was asked outside its
\* shape.
PanicRow == [kind |-> "panic"]

Failed(x) == x.kind \in {"panic", "outofrange"}

\* The struct literal Self { first, second }.
Pair(kind, first, second) == [kind |-> kind, first |-> first, second |-> second]

\* A call made on one of the two parts.
Delegate(side, r, c) == [side |-> side, r |-> r, c |-> c]

PanicDelegate == [side |-> "panic", r |-> Panic, c |-> Panic]

Part(m, side) == IF side = "first" THEN m.first ELSE m.second

(* --------------------------- VerticalPair ----------------------------- *)

\* Mutant of VerticalPair_new: the assert_eq! is missing.
VerticalPair_new_Unchecked(first, second) == Pair("V", first, second)

\* VerticalPair::new: NoMatrix when assert_eq! panics.
VerticalPair_new(first, second) ==
    LET wf == Matrix_width(first)
        ws == Matrix_width(second)
    IN  IF wf = Panic \/ ws = Panic THEN NoMatrix
        ELSE IF wf # ws THEN NoMatrix
        ELSE Pair("V", first, second)

VerticalPair_width(m) == Matrix_width(m.first)

\* Mutant of VerticalPair_height: HorizontalPair's height, copied.
VerticalPair_height_FirstOnly(m) == Matrix_height(m.first)

VerticalPair_height(m) == UsizeAdd(Matrix_height(m.first), Matrix_height(m.second))

\* Mutant of VerticalPair_get_delegate: the second part is given r itself.
VerticalPair_get_delegate_NoOffset(m, r, c) ==
    LET fh == Matrix_height(m.first) IN
    IF fh = Panic THEN PanicDelegate
    ELSE IF r < fh THEN Delegate("first", r, c)
    ELSE Delegate("second", r, c)

\* The part get(r, c) calls, and the indices it passes.
VerticalPair_get_delegate(m, r, c) ==
    LET fh == Matrix_height(m.first) IN
    IF fh = Panic THEN PanicDelegate
    ELSE IF r < fh THEN Delegate("first", r, c)
    ELSE IF UsizeSub(r, fh) = Panic THEN PanicDelegate
    ELSE Delegate("second", UsizeSub(r, fh), c)

VerticalPair_get(m, r, c) ==
    LET d == VerticalPair_get_delegate(m, r, c) IN
    IF d.side = "panic" THEN Panic
    ELSE Matrix_get(Part(m, d.side), d.r, d.c)

\* Mutant of VerticalPair_row_delegate: the second part is given r itself.
VerticalPair_row_delegate_NoOffset(m, r) ==
    LET fh == Matrix_height(m.first) IN
    IF fh = Panic THEN PanicDelegate
    ELSE IF r < fh THEN Delegate("first", r, 0)
    ELSE Delegate("second", r, 0)

\* The part row(r) calls, and the row index it passes.
VerticalPair_row_delegate(m, r) ==
    LET fh == Matrix_height(m.first) IN
    IF fh = Panic THEN PanicDelegate
    ELSE IF r < fh THEN Delegate("first", r, 0)
    ELSE IF UsizeSub(r, fh) = Panic THEN PanicDelegate
    ELSE Delegate("second", UsizeSub(r, fh), 0)

EitherRow(tag, inner) == [kind |-> "either", tag |-> tag, inner |-> inner]

VerticalPair_row(m, r) ==
    LET d == VerticalPair_row_delegate(m, r) IN
    IF d.side = "panic" THEN PanicRow
    ELSE LET inner == Matrix_row(Part(m, d.side), d.r) IN
         IF Failed(inner) THEN inner
         ELSE EitherRow(IF d.side = "first" THEN "Left" ELSE "Right", inner)

\* Mutant of VerticalPair_row_slice_delegate: r <= first.height() for the test.
VerticalPair_row_slice_delegate_OffByOne(m, r) ==
    LET fh == Matrix_height(m.first) IN
    IF fh = Panic THEN PanicDelegate
    ELSE IF r <= fh THEN Delegate("first", r, 0)
    ELSE IF UsizeSub(r, fh) = Panic THEN PanicDelegate
    ELSE Delegate("second", UsizeSub(r, fh), 0)

\* The part row_slice(r) calls, and the row index it passes.
VerticalPair_row_slice_delegate(m, r) ==
    LET fh == Matrix_height(m.first) IN
    IF fh = Panic THEN PanicDelegate
    ELSE IF r < fh THEN Delegate("first", r, 0)
    ELSE IF UsizeSub(r, fh) = Panic THEN PanicDelegate
    ELSE Delegate("second", UsizeSub(r, fh), 0)

VerticalPair_row_slice(m, r) ==
    LET d == VerticalPair_row_slice_delegate(m, r) IN
    IF d.side = "panic" THEN PanicRow
    ELSE LET inner == Matrix_row_slice(Part(m, d.side), d.r) IN
         IF Failed(inner) THEN inner
         ELSE EitherRow(IF d.side = "first" THEN "Left" ELSE "Right", inner)

(* -------------------------- HorizontalPair ---------------------------- *)

\* HorizontalPair::new: NoMatrix when assert_eq! panics.
HorizontalPair_new(first, second) ==
    LET hf == Matrix_height(first)
        hs == Matrix_height(second)
    IN  IF hf = Panic \/ hs = Panic THEN NoMatrix
        ELSE IF hf # hs THEN NoMatrix
        ELSE Pair("H", first, second)

HorizontalPair_width(m) == UsizeAdd(Matrix_width(m.first), Matrix_width(m.second))

HorizontalPair_height(m) == Matrix_height(m.first)

\* Mutant of HorizontalPair_get_delegate: the second part is given c itself.
HorizontalPair_get_delegate_NoOffset(m, r, c) ==
    LET fw == Matrix_width(m.first) IN
    IF fw = Panic THEN PanicDelegate
    ELSE IF c < fw THEN Delegate("first", r, c)
    ELSE Delegate("second", r, c)

\* Mutant of HorizontalPair_get_delegate: c <= first.width() for the test.
HorizontalPair_get_delegate_OffByOne(m, r, c) ==
    LET fw == Matrix_width(m.first) IN
    IF fw = Panic THEN PanicDelegate
    ELSE IF c <= fw THEN Delegate("first", r, c)
    ELSE IF UsizeSub(c, fw) = Panic THEN PanicDelegate
    ELSE Delegate("second", r, UsizeSub(c, fw))

\* The part get(r, c) calls, and the indices it passes.
HorizontalPair_get_delegate(m, r, c) ==
    LET fw == Matrix_width(m.first) IN
    IF fw = Panic THEN PanicDelegate
    ELSE IF c < fw THEN Delegate("first", r, c)
    ELSE IF UsizeSub(c, fw) = Panic THEN PanicDelegate
    ELSE Delegate("second", r, UsizeSub(c, fw))

HorizontalPair_get(m, r, c) ==
    LET d == HorizontalPair_get_delegate(m, r, c) IN
    IF d.side = "panic" THEN Panic
    ELSE Matrix_get(Part(m, d.side), d.r, d.c)

\* The two calls row(r) makes, in order.
HorizontalPair_row_delegates(m, r) == <<Delegate("first", r, 0), Delegate("second", r, 0)>>

\* Iterator::chain: both halves present, the first one consumed first.
Chain(a, b) == [kind |-> "chain", a |-> a, b |-> b]

\* Mutant of HorizontalPair_row: second.row(r).chain(first.row(r)).
HorizontalPair_row_Swapped(m, r) ==
    LET a == Matrix_row(m.first, r)
        b == Matrix_row(m.second, r)
    IN  IF Failed(a) THEN a
        ELSE IF Failed(b) THEN b
        ELSE Chain(b, a)

HorizontalPair_row(m, r) ==
    LET ds == HorizontalPair_row_delegates(m, r)
        a == Matrix_row(Part(m, ds[1].side), ds[1].r)
        b == Matrix_row(Part(m, ds[2].side), ds[2].r)
    IN  IF Failed(a) THEN a
        ELSE IF Failed(b) THEN b
        ELSE Chain(a, b)

(* ----------------------- iterators and slices ------------------------- *)

\* The answer of next(): the item (or None) and the iterator afterwards.
Step(item, it) == [item |-> item, it |-> it]

\* A leaf's row iterator: the remaining elements, in order.
LeafIter_next(it) ==
    IF it.items = <<>> THEN Step(None, it)
    ELSE Step(Head(it.items), [it EXCEPT !.items = Tail(@)])

\* Mutant of EitherRow_next: only the Left variant is passed on.
EitherRow_next_LeftOnly(it) ==
    IF it.tag = "Left"
    THEN LET n == Iterator_next(it.inner) IN Step(n.item, EitherRow("Left", n.it))
    ELSE Step(None, it)

\* EitherRow as an Iterator: the active variant's next().
EitherRow_next(it) ==
    IF it.tag = "Left"
    THEN LET n == Iterator_next(it.inner) IN Step(n.item, EitherRow("Left", n.it))
    ELSE LET n == Iterator_next(it.inner) IN Step(n.item, EitherRow("Right", n.it))

\* The first half of a Chain once it has returned None.
Gone == [kind |-> "gone"]

\* Chain as an Iterator: the first half until it returns None, then the second.
Chain_next(it) ==
    LET na == IF it.a.kind = "gone" THEN Step(None, Gone) ELSE Iterator_next(it.a) IN
    IF na.item # None THEN Step(na.item, [it EXCEPT !.a = na.it])
    ELSE LET nb == Iterator_next(it.b) IN
         Step(nb.item, [it EXCEPT !.a = Gone, !.b = nb.it])

\* EitherRow as a Deref to a slice: the active variant's slice.
EitherRow_deref(s) ==
    IF s.tag = "Left" THEN Deref_deref(s.inner) ELSE Deref_deref(s.inner)

(* ---------------------------- dispatchers ----------------------------- *)

Matrix_width(m) ==
    IF m.kind = "leaf" THEN m.w
    ELSE IF m.kind = "V" THEN VerticalPair_width(m)
    ELSE HorizontalPair_width(m)

Matrix_height(m) ==
    IF m.kind = "leaf" THEN m.h
    ELSE IF m.kind = "V" THEN VerticalPair_height(m)
    ELSE HorizontalPair_height(m)

Matrix_get(m, r, c) ==
    IF m.kind = "leaf" THEN LeafGet(m, r, c)
    ELSE IF m.kind = "V" THEN VerticalPair_get(m, r, c)
    ELSE HorizontalPair_get(m, r, c)

Matrix_row(m, r) ==
    IF m.kind = "leaf" THEN LeafRow(m, r)
    ELSE IF m.kind = "V" THEN VerticalPair_row(m, r)
    ELSE HorizontalPair_row(m, r)

\* row_slice exists for leaves and for VerticalPair only.
HasRowSlice(m) ==
    LET RECURSIVE Has(_)
        Has(x) == IF x.kind = "leaf" THEN TRUE
                  ELSE IF x.kind = "V" THEN Has(x.first) /\ Has(x.second)
                  ELSE FALSE
    IN Has(m)

Matrix_row_slice(m, r) ==
    IF m.kind = "leaf" THEN LeafRowSlice(m, r)
    ELSE VerticalPair_row_slice(m, r)

Iterator_next(it) ==
    IF it.kind = "leafiter" THEN LeafIter_next(it)
    ELSE IF it.kind = "either" THEN EitherRow_next(it)
    ELSE IF it.kind = "chain" THEN Chain_next(it)
    ELSE Step(None, it)

Deref_deref(s) ==
    IF s.kind = "slice" THEN s.items
    ELSE IF s.kind = "either" THEN EitherRow_deref(s)
    ELSE <<>>

\* Every item an iterator yields until its first None.
RECURSIVE Collect(_)
Collect(it) ==
    LET n == Iterator_next(it) IN
    IF n.item = None THEN <<>> ELSE <<n.item>> \o Collect(n.it)

RECURSIVE Depth(_)
Depth(m) ==
    IF m.kind \in {"leaf", "none"} THEN 0
    ELSE 1 + (IF Depth(m.first) >= Depth(m.second)
              THEN Depth(m.first) ELSE Depth(m.second))

(* ------------------------------ state --------------------------------- *)

NoCall == [op |-> "none"]

NoIter == [it |-> [kind |-> "none"], out |-> <<>>, nones |-> 0, resumed |-> FALSE]

\* Both build profiles; nothing constructed, nothing called.
Init ==
    /\ overflowChecks \in BOOLEAN
    /\ mat = NoMatrix
    /\ status = "none"
    /\ last = NoCall
    /\ call = NoCall
    /\ iter = NoIter

\* What a constructor can be given: a leaf, or the composite built so far when
\* that one is made of two leaves (the composites are Copy, so it can be given
\* twice).  Composites so nest two levels deep: a pair of pairs of leaves.
Parts ==
    Leaves \cup (IF status = "built" /\ Depth(mat) = 1 THEN {mat} ELSE {})

\* <kind>Pair::new(first, second); a panic ends the run.  The calls below
\* only read the composite, so a run constructs first and then makes one
\* call (and advances the iterator a row call returned).
New(kind, first, second) ==
    LET m == IF kind = "V" THEN VerticalPair_new(first, second)
             ELSE HorizontalPair_new(first, second)
    IN  /\ mat' = m
        /\ status' = IF m = NoMatrix THEN "panicked" ELSE "built"
        /\ last' = [op |-> "new", kind |-> kind, first |-> first, second |-> second]
        /\ call' = NoCall
        /\ iter' = NoIter
        /\ UNCHANGED overflowChecks

\* The first constructor call is given two leaves, a later one the composite
\* built so far on at least one side.
NewCall ==
    /\ status # "panicked"
    /\ call = NoCall
    /\ \E kind \in {"V", "H"} : \E first \in Parts : \E second \in Parts :
        /\ status = "built" => (first = mat \/ second = mat)
        /\ New(kind, first, second)

\* The rows and columns a caller may ask for: those inside the shape.
Rows == IF Matrix_height(mat) = Panic THEN {} ELSE 0..(Matrix_height(mat) - 1)

Cols == IF Matrix_width(mat) = Panic THEN {} ELSE 0..(Matrix_width(mat) - 1)

WidthCall ==
    /\ status = "built"
    /\ call = NoCall
    /\ call' = [op |-> "width", res |-> Matrix_width(mat)]
    /\ iter' = NoIter
    /\ UNCHANGED <<overflowChecks, mat, status, last>>

HeightCall ==
    /\ status = "built"
    /\ call = NoCall
    /\ call' = [op |-> "height", res |-> Matrix_height(mat)]
    /\ iter' = NoIter
    /\ UNCHANGED <<overflowChecks, mat, status, last>>

GetCall ==
    /\ status = "built"
    /\ call = NoCall
    /\ \E r \in Rows : \E c \in Cols :
        call' = [op |-> "get", r |-> r, c |-> c,
                 res |-> Matrix_get(mat, r, c),
                 del |-> IF mat.kind = "V"
                         THEN <<VerticalPair_get_delegate(mat, r, c)>>
                         ELSE <<HorizontalPair_get_delegate(mat, r, c)>>]
    /\ iter' = NoIter
    /\ UNCHANGED <<overflowChecks, mat, status, last>>

\* row(r); the iterator it returns is then advanced by NextCall.
RowCall ==
    /\ status = "built"
    /\ call = NoCall
    /\ \E r \in Rows :
        LET it == Matrix_row(mat, r) IN
        /\ call' = [op |-> "row", r |-> r, res |-> it,
                    del |-> IF mat.kind = "V"
                            THEN <<VerticalPair_row_delegate(mat, r)>>
                            ELSE HorizontalPair_row_delegates(mat, r)]
        /\ iter' = [NoIter EXCEPT !.it = it]
    /\ UNCHANGED <<overflowChecks, mat, status, last>>

RowSliceCall ==
    /\ status = "built"
    /\ call = NoCall
    /\ mat.kind = "V"
    /\ HasRowSlice(mat)
    /\ \E r \in Rows :
        call' = [op |-> "row_slice", r |-> r,
                 res |-> Matrix_row_slice(mat, r),
                 del |-> <<VerticalPair_row_slice_delegate(mat, r)>>]
    /\ iter' = NoIter
    /\ UNCHANGED <<overflowChecks, mat, status, last>>

\* next() on the iterator row(r) returned.
NextCall ==
    /\ iter.it.kind \in {"leafiter", "either", "chain"}
    /\ iter.nones <= MaxExtraNext
    /\ LET n == Iterator_next(iter.it) IN
        iter' = [it |-> n.it,
                 out |-> IF n.item = None THEN iter.out ELSE Append(iter.out, n.item),
                 nones |-> IF n.item = None THEN iter.nones + 1 ELSE iter.nones,
                 resumed |-> iter.resumed \/ (iter.nones > 0 /\ n.item # None)]
    /\ UNCHANGED <<overflowChecks, mat, status, last, call>>

\* Callers outside the module reach the pub fields: v.first = x, with x of
\* the field's type (here another leaf).
SetFirst ==
    /\ status = "built"
    /\ call = NoCall
    /\ mat.first.kind = "leaf"
    /\ \E x \in Leaves : mat' = [mat EXCEPT !.first = x]
    /\ last' = [op |-> "set_first"]
    /\ UNCHANGED <<overflowChecks, status, call, iter>>

\* v.second = x.
SetSecond ==
    /\ status = "built"
    /\ call = NoCall
    /\ mat.second.kind = "leaf"
    /\ \E x \in Leaves : mat' = [mat EXCEPT !.second = x]
    /\ last' = [op |-> "set_second"]
    /\ UNCHANGED <<overflowChecks, status, call, iter>>

\* With both fields pub, the struct literal is open to every caller:
\* VerticalPair { first, second }, without new's assert_eq!.
StructLiteral ==
    /\ status = "none"
    /\ \E kind \in {"V", "H"} : \E first \in Leaves : \E second \in Leaves :
        mat' = Pair(kind, first, second)
    /\ status' = "built"
    /\ last' = [op |-> "literal"]
    /\ UNCHANGED <<overflowChecks, call, iter>>

\* #[derive(Copy, Clone)]: the copy has the same two fields.
CloneCall ==
    /\ status = "built"
    /\ call = NoCall
    /\ call' = [op |-> "clone", res |-> Pair(mat.kind, mat.first, mat.second)]
    /\ UNCHANGED <<overflowChecks, mat, status, last, iter>>

\* Leaves as tall as usize allows, for the sums that leave its range.
TallLeaves == {Leaf(h, 1, 1) : h \in 0..UsizeMax}

NewTall ==
    /\ status = "none"
    /\ \E first \in TallLeaves : \E second \in TallLeaves : New("V", first, second)

Next ==
    \/ NewCall
    \/ WidthCall
    \/ HeightCall
    \/ GetCall
    \/ RowCall
    \/ RowSliceCall
    \/ NextCall

Spec == Init /\ [][Next]_vars

\* The callers that also use the pub fields, the struct literal and Clone.
NextPub ==
    \/ NewCall
    \/ SetFirst
    \/ SetSecond
    \/ StructLiteral
    \/ CloneCall

SpecPub == Init /\ [][NextPub]_vars

\* height() of vertical pairs of leaves of every height.
NextOverflow ==
    \/ NewTall
    \/ HeightCall

SpecOverflow == Init /\ [][NextOverflow]_vars

(* ------------------------------ claims -------------------------------- *)

\* The composite is the one the last constructor call returned.
BuiltBy(kind) == status = "built" /\ last.op = "new" /\ last.kind = kind

\* The first n items of a sequence.
Prefix(q, n) == SubSeq(q, 1, n)

\* An iterator after n calls of next().
RECURSIVE Advance(_, _)
Advance(it, n) == IF n = 0 THEN it ELSE Advance(Iterator_next(it).it, n - 1)

\* C1: V = VerticalPair::new(A, B) has A's width, the sum of the two heights,
\* and get(r, c) is A.get(r, c) for r < A.height() and
\* B.get(r - A.height(), c) for the other rows.
C1_VerticalGet ==
    BuiltBy("V") =>
        LET A == last.first
            B == last.second
        IN  /\ call.op = "width" => call.res = Matrix_width(A)
            /\ call.op = "height" => call.res = Matrix_height(A) + Matrix_height(B)
            /\ call.op = "get" =>
                /\ call.r < Matrix_height(A) + Matrix_height(B)
                /\ call.c < Matrix_width(A)
                /\ call.res = IF call.r < Matrix_height(A)
                              THEN Matrix_get(A, call.r, call.c)
                              ELSE Matrix_get(B, call.r - Matrix_height(A), call.c)

\* C1's case: get(2, 1) of [[1,2]] over [[5,6],[7,8]] is B.get(1, 1) = 8.
C1_Witness ==
    /\ BuiltBy("V")
    /\ mat = Pair("V", Leaf(1, 2, 1), Leaf(2, 2, 5))
    /\ call.op = "get" /\ call.r = 2 /\ call.c = 1 /\ call.res = 8

\* C2: H = HorizontalPair::new(A, B) has A's height, the sum of the two
\* widths, and row(r) yields A.row(r) and then B.row(r), width() items in all;
\* what has been yielded so far is always a prefix of that sequence.
C2_HorizontalRow ==
    BuiltBy("H") =>
        LET A == last.first
            B == last.second
        IN  /\ call.op = "width" => call.res = Matrix_width(A) + Matrix_width(B)
            /\ call.op = "height" => call.res = Matrix_height(A)
            /\ call.op = "row" =>
                LET whole == Collect(Matrix_row(A, call.r)) \o Collect(Matrix_row(B, call.r))
                IN  /\ ~Failed(call.res)
                    /\ Collect(call.res) = whole
                    /\ Len(whole) = Matrix_width(mat)
                    /\ Len(iter.out) <= Len(whole)
                    /\ iter.out = Prefix(whole, Len(iter.out))
                    /\ iter.nones > 0 => iter.out = whole

\* C2's case: row(1) of [[1,2],[3,4]] beside [[5,6],[7,8]], read to its end.
C2_Witness ==
    /\ BuiltBy("H")
    /\ mat = Pair("H", Leaf(2, 2, 1), Leaf(2, 2, 5))
    /\ call.op = "row" /\ call.r = 1
    /\ iter.out = <<3, 4, 7, 8>> /\ iter.nones > 0

\* The two parts given to the last constructor call do not fit.
Mismatch ==
    IF last.kind = "V"
    THEN Matrix_width(last.first) # Matrix_width(last.second)
    ELSE Matrix_height(last.first) # Matrix_height(last.second)

\* C3: new panics and yields no composite exactly when the widths (vertical)
\* or the heights (horizontal) differ; no call on a composite is then
\* possible.  In every other case it returns the pair of its two arguments.
C3_NewChecksDimensions ==
    last.op = "new" =>
        /\ Mismatch =>
            /\ status = "panicked" /\ mat = NoMatrix
            /\ call = NoCall /\ iter = NoIter
            /\ ~ENABLED (GetCall \/ RowCall \/ RowSliceCall)
        /\ ~Mismatch =>
            /\ status = "built"
            /\ mat = Pair(last.kind, last.first, last.second)

\* C3's case: a vertical pair of widths 1 and 2, and a horizontal pair of
\* heights 1 and 2, were asked for.
C3_Witness ==
    /\ status = "panicked"
    /\ last.op = "new"
    /\ \/ last.kind = "V" /\ Matrix_width(last.first) = 1 /\ Matrix_width(last.second) = 2
       \/ last.kind = "H" /\ Matrix_height(last.first) = 1 /\ Matrix_height(last.second) = 2

\* C4: row_slice(r) of a VerticalPair holds the items row(r) yields, picks
\* the same side (Left or Right) and passes the same row index.
C4_RowSliceEqualsRow ==
    (BuiltBy("V") /\ call.op = "row_slice") =>
        LET row == Matrix_row(mat, call.r) IN
        /\ ~Failed(call.res) /\ ~Failed(row)
        /\ call.res.kind = "either" /\ row.kind = "either"
        /\ call.res.tag = row.tag
        /\ call.del = <<VerticalPair_row_delegate(mat, call.r)>>
        /\ Deref_deref(call.res) = Collect(row)

\* C4's case: row_slice(1) of [[1,2]] over [[5,6],[7,8]] is Right([5,6]).
C4_Witness ==
    /\ BuiltBy("V")
    /\ mat = Pair("V", Leaf(1, 2, 1), Leaf(2, 2, 5))
    /\ call.op = "row_slice" /\ call.r = 1
    /\ call.res.tag = "Right" /\ Deref_deref(call.res) = <<5, 6>>

\* Scenario 2: A = [[1,2],[3,4]] beside B = [[5,6,7],[8,9,10]].
Scenario2 ==
    LET H == HorizontalPair_new(Leaf(2, 2, 1), Leaf(2, 3, 5)) IN
    /\ H # NoMatrix
    /\ Matrix_width(H) = 5 /\ Matrix_height(H) = 2
    /\ Collect(Matrix_row(H, 0)) = <<1, 2, 5, 6, 7>>
    /\ Matrix_get(H, 1, 4) = 10

\* C5: H = HorizontalPair::new(A, B): get(r, c) is A.get(r, c) for
\* c < A.width() and B.get(r, c - A.width()) for the other columns; in
\* scenario 2, get(1, 4) is 10 (the scenario reads the build profile only,
\* so the initial states decide it).
C5_HorizontalGet ==
    /\ status = "none" => Scenario2
    /\ (BuiltBy("H") /\ call.op = "get") =>
        LET A == last.first
            B == last.second
        IN  /\ call.r < Matrix_height(A)
            /\ call.c < Matrix_width(A) + Matrix_width(B)
            /\ call.res = IF call.c < Matrix_width(A)
                          THEN Matrix_get(A, call.r, call.c)
                          ELSE Matrix_get(B, call.r, call.c - Matrix_width(A))

\* C5's case: get(1, 3) of [[1,2],[3,4]] beside [[5,6],[7,8]] is B.get(1, 1).
C5_Witness ==
    /\ BuiltBy("H")
    /\ mat = Pair("H", Leaf(2, 2, 1), Leaf(2, 2, 5))
    /\ call.op = "get" /\ call.r = 1 /\ call.c = 3 /\ call.res = 8

\* C6: for a composite of leaves or of composites, row(r) yields exactly
\* width() items, and its c-th item is get(r, c).
C6_RowMatchesGet ==
    (status = "built" /\ call.op = "row") =>
        /\ ~Failed(call.res)
        /\ Len(Collect(call.res)) = Matrix_width(mat)
        /\ \A c \in 0..(Matrix_width(mat) - 1) :
            Collect(call.res)[c + 1] = Matrix_get(mat, call.r, c)

\* C6's case: a vertical pair of two horizontal pairs, a row of its lower half.
C6_Witness ==
    /\ status = "built"
    /\ mat.kind = "V" /\ mat.first.kind = "H" /\ mat.second.kind = "H"
    /\ call.op = "row" /\ call.r >= Matrix_height(mat.first)
    /\ Len(Collect(call.res)) = 4

\* The sum of the two parts' heights, as a number.
HeightSum == Matrix_height(mat.first) + Matrix_height(mat.second)

\* C7 as stated: VerticalPair::height() is the sum of the two heights, and a
\* sum beyond usize ends the call in an error, never in a wrapped value.
C7_HeightOverflowIsError ==
    (BuiltBy("V") /\ call.op = "height") =>
        IF HeightSum <= UsizeMax THEN call.res = HeightSum ELSE call.res = Panic

\* C7 as amended: VerticalPair::height() is the sum of the two heights when
\* the sum fits usize; a sum beyond usize ends the call in a panic in a build
\* with overflow checks, and is returned modulo 2^w in a build without them.
C7_HeightOverflowPanicsOrWraps ==
    (BuiltBy("V") /\ call.op = "height") =>
        IF HeightSum <= UsizeMax THEN call.res = HeightSum
        ELSE IF overflowChecks THEN call.res = Panic
        ELSE call.res = HeightSum % UsizeModulus

\* C7's case: the heights UsizeMax and 2, no overflow checks: height() is 1.
C7_Witness ==
    /\ BuiltBy("V")
    /\ ~overflowChecks
    /\ Matrix_height(mat.first) = UsizeMax /\ Matrix_height(mat.second) = 2
    /\ call.op = "height" /\ call.res = 1

\* C8 as stated: whatever a caller does with a composite, a VerticalPair's
\* parts have equal widths and a HorizontalPair's parts equal heights.
C8_DimensionInvariant ==
    status = "built" =>
        /\ mat.kind = "V" => Matrix_width(mat.first) = Matrix_width(mat.second)
        /\ mat.kind = "H" => Matrix_height(mat.first) = Matrix_height(mat.second)

C10_DelegatesInRange ==
    (status = "built" /\ call.op \in {"get", "row", "row_slice"}) =>
        \A i \in 1..Len(call.del) :
            LET d == call.del[i] IN
            /\ d.side # "panic"
            /\ 0 <= d.r /\ d.r < Matrix_height(Part(mat, d.side))
            /\ call.op = "get" =>
                (0 <= d.c /\ d.c < Matrix_width(Part(mat, d.side)))
            /\ (mat.kind = "V" /\ d.side = "first") => d.r = call.r
            /\ (mat.kind = "V" /\ d.side = "second") =>
                d.r = call.r - Matrix_height(mat.first)
            /\ mat.kind = "H" => d.r = call.r
            /\ (mat.kind = "H" /\ call.op = "get" /\ d.side = "first") => d.c = call.c
            /\ (mat.kind = "H" /\ call.op = "get" /\ d.side = "second") =>
                d.c = call.c - Matrix_width(mat.first)

\* C10's case: get on a horizontal pair whose second part is itself a pair,
\* at the first column of that part.
C10_Witness ==
    /\ status = "built"
    /\ mat.kind = "H" /\ mat.second.kind # "leaf"
    /\ call.op = "get" /\ call.c = Matrix_width(mat.first) /\ call.c > 0
    /\ call.del = <<Delegate("second", call.r, 0)>>

====
